---- MODULE Spec2Model ----
(***************************************************************************)
(* A model of the diff/patch engine of go-doctor (src/doctor/diff.go):     *)
(* the greedy LCS/SES search of Diff, the backtrace of constructEditSet,   *)
(* the hunk assembly of createPatch and the unified-diff writer of         *)
(* Patch.Write / writeUnifiedDiffHunk.                                     *)
(*                                                                         *)
(* Strings are sequences of one-character strings; "\n" is the newline.    *)
(* An edit is a record [Offset, Length, replacement]; the edits of one     *)
(* file of an EditSet are a sequence of edits.                             *)
(***************************************************************************)
EXTENDS Integers, Sequences, FiniteSets, TLC

VARIABLES
    pc,                \* position of the running operation
    a, b,              \* Diff: the two unit sequences
    v, vs, d, k,       \* Diff: frontier array, its snapshots, loop counters
    result,            \* Diff: the edits of the returned EditSet
    text,              \* createPatch: the contents of the input stream
    editSet,           \* createPatch: the edits of the EditSet e for the key
    reader,            \* createPatch: the lineRdr
    nextIndex,         \* createPatch: editIter.nextIndex
    curState,          \* createPatch: state of the hunk state machine
    hunk,              \* createPatch: the hunk under construction
    trailingCtxLines,  \* createPatch: context lines since the last edit
    patch,             \* the Patch: [filename, hunks]
    retErr,            \* the error the last returned operation gave back
    op,                \* the operation the last step belongs to
    sink,              \* Patch.Write: the io.Writer: [cap, data, failed]
    writer,            \* Patch.Write: the bufio.Writer: [buf, err]
    lineOffset,        \* Patch.Write: cumulative line shift of the hunks
    hunkIdx            \* Patch.Write: number of hunks written so far

diffVars == <<a, b, v, vs, d, k, result>>
cpVars == <<text, editSet, reader, nextIndex, curState, hunk, trailingCtxLines>>
patchVars == <<patch, retErr>>
writeVars == <<sink, writer, lineOffset, hunkIdx>>

----------------------------------------------------------------------------
(* Bounds of the model *)

MaxUnits == 3          \* Diff: longest unit sequence
LongUnits == 6         \* Diff: units of the long sequence
MaxLines == 9          \* createPatch: most complete lines of a text
MaxEdits == 2          \* createPatch: most edits of an EditSet
BufSize == 16          \* Patch.Write: bytes the bufio.Writer holds (scaled down)
ShortLines == 3        \* Patch: most lines of the short texts
LongLines == 9         \* Patch: lines of the long text
MaxSink == 40          \* Patch.Write: most bytes a failing sink takes
SinkStep == 4          \* Patch.Write: the capacities of the sink are its multiples
DirectLines == 2       \* Patch: most complete lines of a text edited directly

----------------------------------------------------------------------------
(* Strings *)

NL == "\n"

RECURSIVE Join(_)
\* strings.Join(ss, "")
Join(ss) == IF ss = <<>> THEN <<>> ELSE Head(ss) \o Join(Tail(ss))

RECURSIVE SeqsUpTo(_, _)
\* all sequences over S of length 0..n
SeqsUpTo(S, n) ==
    IF n = 0 THEN {<<>>}
    ELSE LET shorter == SeqsUpTo(S, n - 1)
         IN  shorter \cup {Append(s, x) : s \in {t \in shorter : Len(t) = n - 1}, x \in S}

Units == {<<"x">>, <<"y">>, <<"x", "y">>}

\* a long sequence: units "y" and then one unit "x"
LongB == [i \in 1..LongUnits |-> IF i < LongUnits THEN <<"y">> ELSE <<"x">>]

\* the pairs of unit sequences Diff is called on: all short pairs, and the
\* one-unit sequence "x" against the long sequence
DiffPairs ==
    (SeqsUpTo(Units, MaxUnits) \X SeqsUpTo(Units, MaxUnits))
    \cup {<<<<<<"x">>>>, LongB>>}

----------------------------------------------------------------------------
(* EditSet: the edits of one file, ascending by offset *)

NewEditSet == <<>>

Edit(offset, length, replacement) ==
    [Offset |-> offset, Length |-> length, replacement |-> replacement]

\* editSet.Add: the new edit goes in front of the first edit that does not
\* start before it, which keeps the edits ascending by offset when they are
\* discovered in reverse textual order
EditSetAdd(edits, e) ==
    LET before == {i \in 1..Len(edits) : edits[i].Offset < e.Offset}
        p == Cardinality(before)
    IN  SubSeq(edits, 1, p) \o <<e>> \o SubSeq(edits, p + 1, Len(edits))

OffsetPastEnd(e) == e.Offset + e.Length

\* editSet.ApplyTo on a string: position by position, the replacements of
\* the edits that start there (in list order), then the byte unless an edit
\* covers it
RECURSIVE ApplyFrom(_, _, _)
ApplyFrom(edits, s, p) ==
    LET here == SelectSeq(edits, LAMBDA e : e.Offset = p)
        ins  == Join([i \in 1..Len(here) |-> here[i].replacement])
        covered == \E i \in 1..Len(edits) :
                       edits[i].Offset <= p /\ p < OffsetPastEnd(edits[i])
    IN  IF p >= Len(s) THEN ins
        ELSE ins \o (IF covered THEN <<>> ELSE <<s[p + 1]>>) \o ApplyFrom(edits, s, p + 1)

ApplyEdits(edits, s) == ApplyFrom(edits, s, 0)

----------------------------------------------------------------------------
(* Diff *)

abs(n) == IF n < 0 THEN -n ELSE n

RECURSIVE offsetOfString(_, _)
\* byte offset of ss[index] in Join(ss); index is 0-based and at most Len(ss)
offsetOfString(index, ss) ==
    IF index <= 0 THEN 0
    ELSE offsetOfString(index - 1, ss) + Len(ss[index])

\* a search that never follows a run of equal units
SnakeNoMatch(aa, bb, x, y) == x

RECURSIVE Snake(_, _, _, _)
\* for x < n && y < m && a[x] == b[y] { x, y = x+1, y+1 }
Snake(aa, bb, x, y) ==
    IF x < Len(aa) /\ y < Len(bb) /\ aa[x + 1] = bb[y + 1]
    THEN Snake(aa, bb, x + 1, y + 1)
    ELSE x

\* an index of the Go slice v, of length 2*max
InV(vv, i) == i \in DOMAIN vv

\* Diff up to the first iteration of the search: the degenerate cases return,
\* the general case allocates v and starts at d = 0, k = 0
DiffBegin(aa, bb) ==
    LET n == Len(aa)
        m == Len(bb)
        max == m + n
        base == [a |-> aa, b |-> bb, v |-> <<>>, vs |-> <<>>, d |-> 0, k |-> 0,
                 result |-> NewEditSet, pc |-> "done"]
    IN  IF n = 0 /\ m = 0 THEN base
        ELSE IF n = 0
             THEN [base EXCEPT !.result = EditSetAdd(NewEditSet, Edit(0, 0, Join(bb)))]
        ELSE IF m = 0
             THEN [base EXCEPT !.result = EditSetAdd(NewEditSet, Edit(0, Len(Join(aa)), <<>>))]
        ELSE [base EXCEPT !.v = [i \in 0..(2 * max - 1) |-> 0], !.pc = "search"]

\* how the search records the move that reached diagonal k
SignedX(vert, x) == IF vert THEN -x ELSE x

\* one iteration of the inner loop of Diff (one diagonal k of round d)
SearchStep(s) ==
    LET n == Len(s.a)
        m == Len(s.b)
        max == m + n
        offset == max
        reads == IF s.k = -s.d THEN {offset + s.k + 1}
                 ELSE IF s.k = s.d THEN {offset + s.k - 1}
                 ELSE {offset + s.k - 1, offset + s.k + 1}
    IN  IF \E i \in reads \cup {offset + s.k} : ~InV(s.v, i)
        THEN [s EXCEPT !.pc = "panic"]
        ELSE
        LET horiz == s.k = -s.d
                     \/ (s.k # s.d /\ abs(s.v[offset + s.k - 1]) < abs(s.v[offset + s.k + 1]))
            x0 == IF horiz THEN abs(s.v[offset + s.k + 1])
                           ELSE abs(s.v[offset + s.k - 1]) + 1
            vert == ~horiz
            y0 == x0 - s.k
        IN  IF x0 < n /\ y0 < 0
            THEN [s EXCEPT !.pc = "panic"]
            ELSE
            LET x == Snake(s.a, s.b, x0, y0)
                y == x - s.k
                nv == [s.v EXCEPT ![offset + s.k] = SignedX(vert, x)]
            IN  IF x >= n /\ y >= m
                THEN [s EXCEPT !.v = nv, !.vs = Append(s.vs, nv),
                               !.k = n - m, !.pc = "backtrace"]
                ELSE IF s.k + 2 <= s.d
                THEN [s EXCEPT !.v = nv, !.k = s.k + 2]
                ELSE [s EXCEPT !.v = nv, !.vs = Append(s.vs, nv),
                               !.d = s.d + 1, !.k = -(s.d + 1),
                               !.pc = IF s.d + 1 > max THEN "panic" ELSE "search"]

\* the test constructEditSet uses to tell an insertion from a deletion
IsInsert(v_k) == v_k > 0

\* one iteration of the loop of constructEditSet
BacktraceStep(s) ==
    LET n == Len(s.a)
        m == Len(s.b)
        max == m + n
        offset == max
        last == s.vs[Len(s.vs)]
        rest == SubSeq(s.vs, 1, Len(s.vs) - 1)
        prev == rest[Len(rest)]
    IN  IF ~InV(last, offset + s.k)
        THEN [s EXCEPT !.pc = "panic"]
        ELSE
        LET v_k == last[offset + s.k]
            x == abs(v_k)
            y == x - s.k
            nk == IF IsInsert(v_k) THEN s.k + 1 ELSE s.k - 1
        IN  IF ~InV(prev, offset + nk)
            THEN [s EXCEPT !.pc = "panic"]
            ELSE
            LET next_v_k == prev[offset + nk]
                next_x == abs(next_v_k)
                next_y == next_x - nk
            IN  IF IsInsert(v_k)
                THEN LET charsToCopy == y - next_y - 1
                         insertOffset == x - charsToCopy
                         copyOffset == y - charsToCopy - 1
                     IN  IF insertOffset > n \/ copyOffset < 0 \/ copyOffset + 1 > m
                         THEN [s EXCEPT !.pc = "panic"]
                         ELSE [s EXCEPT !.vs = rest, !.k = nk,
                                  !.result = EditSetAdd(s.result,
                                      Edit(offsetOfString(insertOffset, s.a), 0,
                                           s.b[copyOffset + 1]))]
                ELSE LET charsToCopy == x - next_x - 1
                         deleteOffset == x - charsToCopy - 1
                     IN  IF deleteOffset < 0 \/ deleteOffset >= n
                         THEN [s EXCEPT !.pc = "panic"]
                         ELSE [s EXCEPT !.vs = rest, !.k = nk,
                                  !.result = EditSetAdd(s.result,
                                      Edit(offsetOfString(deleteOffset, s.a),
                                           Len(s.a[deleteOffset + 1]), <<>>))]

\* Diff(filename, a, b) run to its end: the record at pc "done" or "panic"
RECURSIVE DiffFrom(_)
DiffFrom(s) ==
    IF s.pc = "search" THEN DiffFrom(SearchStep(s))
    ELSE IF s.pc = "backtrace"
         THEN IF Len(s.vs) > 1 THEN DiffFrom(BacktraceStep(s))
              ELSE [s EXCEPT !.pc = "done"]
    ELSE s

DiffRun(aa, bb) == DiffFrom(DiffBegin(aa, bb))

----------------------------------------------------------------------------
(* Hunks and the line reader of createPatch *)

\* Number of leading/trailing context lines in a unified diff
num_ctx_lines == 3

\* e.edits[key] of no edit, and the nil *edit that editIter.edit() returns
\* when no edit remains
NilEdit == [Offset |-> -1, Length |-> -1, replacement |-> <<>>]

\* editIter.edit(): nextIndex is 0-based
EditAt(edits, idx) == IF idx >= Len(edits) THEN NilEdit ELSE edits[idx + 1]

\* edit.RelativeToOffset
RelativeToOffset(ed, offset) == [ed EXCEPT !.Offset = ed.Offset - offset]

\* the nil *hunk
NilHunk ==
    [startOffset |-> 0, startLine |-> 0, numLines |-> 0, hunk |-> <<>>, edits |-> <<>>]

\* hunk.addLine
addLine(h, line) == [h EXCEPT !.hunk = h.hunk \o line, !.numLines = h.numLines + 1]

\* hunk.addEdit
addEdit(h, ed) == [h EXCEPT !.edits = Append(h.edits, RelativeToOffset(ed, h.startOffset))]

\* newLineRdr
newLineRdr ==
    [line |-> <<>>, lineOffset |-> 0, lineNum |-> 0, err |-> "nil",
     leadingCtxLines |-> <<>>]

RECURSIVE NewlineFrom(_, _)
\* 0-based index of the first "\n" of stream at or after pos, or -1
NewlineFrom(stream, pos) ==
    IF pos >= Len(stream) THEN -1
    ELSE IF stream[pos + 1] = NL THEN pos
    ELSE NewlineFrom(stream, pos + 1)

\* bufio.Reader.ReadString('\n') with the stream read up to pos
ReadString(stream, pos) ==
    LET nl == NewlineFrom(stream, pos)
    IN  IF nl < 0
        THEN [data |-> SubSeq(stream, pos + 1, Len(stream)), err |-> "EOF"]
        ELSE [data |-> SubSeq(stream, pos + 1, nl + 1), err |-> "nil"]

\* lineRdr.readLine, given what ReadString returns
readLine(l, rd) ==
    [line |-> rd.data,
     lineOffset |-> l.lineOffset + Len(l.line),
     lineNum |-> l.lineNum + 1,
     err |-> rd.err,
     leadingCtxLines |->
         IF l.lineNum > 0
         THEN (IF Len(l.leadingCtxLines) = num_ctx_lines
               THEN Tail(l.leadingCtxLines) ELSE l.leadingCtxLines) \o <<l.line>>
         ELSE l.leadingCtxLines]

\* lineRdr.offsetPastEnd
offsetPastEnd(l) == l.lineOffset + Len(l.line)

\* lineRdr.editAddsToStart
editAddsToStart(l, ed) ==
    IF ed = NilEdit THEN FALSE
    ELSE ed.Offset = l.lineOffset /\ ed.Length = 0

\* lineRdr.currentLineIsAffectedBy
currentLineIsAffectedBy(l, ed) ==
    IF ed = NilEdit THEN FALSE
    ELSE ed.Offset < offsetPastEnd(l) /\ OffsetPastEnd(ed) >= l.lineOffset

\* lineRdr.nextLineIsAffectedBy
nextLineIsAffectedBy(l, ed) ==
    IF ed = NilEdit THEN FALSE
    ELSE OffsetPastEnd(ed) >= offsetPastEnd(l)

RECURSIVE PrependCtx(_, _)
\* the loop of startHunk over lr.leadingCtxLines
PrependCtx(h, lines) ==
    IF lines = <<>> THEN h
    ELSE PrependCtx([h EXCEPT !.startOffset = h.startOffset - Len(Head(lines)),
                              !.startLine = h.startLine - 1,
                              !.numLines = h.numLines + 1,
                              !.hunk = h.hunk \o Head(lines)],
                    Tail(lines))

\* startHunk
startHunk(lr) ==
    LET h0 == [startOffset |-> lr.lineOffset, startLine |-> lr.lineNum,
               numLines |-> 1, hunk |-> <<>>, edits |-> <<>>]
        h1 == PrependCtx(h0, lr.leadingCtxLines)
    IN  [h1 EXCEPT !.hunk = h1.hunk \o lr.line]

RECURSIVE addAllLoop(_, _, _, _, _)
\* the loop of addAllEditsOnCurLine
addAllLoop(h, lr, edits, idx, lastEdit) ==
    LET cur == EditAt(edits, idx)
    IN  IF currentLineIsAffectedBy(lr, cur)
        THEN IF nextLineIsAffectedBy(lr, cur)
             THEN [hunk |-> h, nextIndex |-> idx, last |-> lastEdit]
             ELSE addAllLoop(addEdit(h, cur), lr, edits, idx + 1, cur)
        ELSE [hunk |-> h, nextIndex |-> idx, last |-> lastEdit]

\* addAllEditsOnCurLine: the hunk, the iterator and the edit it returns
addAllEditsOnCurLine(h, lr, edits, idx) ==
    addAllLoop(h, lr, edits, idx, EditAt(edits, idx))

\* the threshold test of EDIT_ADDED_TO_HUNK on an untouched line
KeepsHunkOpen(t) == t < 2 * num_ctx_lines

\* the state and the trailing-context count once the edits of the current
\* line are attached (the same four lines in each case of the switch)
AfterEdits(st, r) ==
    IF nextLineIsAffectedBy(st.reader, r.last)
    THEN [st EXCEPT !.hunk = r.hunk, !.nextIndex = r.nextIndex,
                    !.curState = "ADDING_TO_HUNK"]
    ELSE [st EXCEPT !.hunk = r.hunk, !.nextIndex = r.nextIndex,
                    !.trailingCtxLines = IF editAddsToStart(st.reader, r.last) THEN 1 ELSE 0,
                    !.curState = "EDIT_ADDED_TO_HUNK"]

\* the body of the loop of createPatch, for the line st.reader has just read
LoopBody(st, edits) ==
    IF st.curState = "HUNK_NOT_STARTED"
    THEN IF currentLineIsAffectedBy(st.reader, EditAt(edits, st.nextIndex))
         THEN AfterEdits(st, addAllEditsOnCurLine(startHunk(st.reader), st.reader,
                                                  edits, st.nextIndex))
         ELSE st
    ELSE IF st.curState = "ADDING_TO_HUNK"
    THEN AfterEdits(st, addAllEditsOnCurLine(addLine(st.hunk, st.reader.line), st.reader,
                                             edits, st.nextIndex))
    ELSE LET h == addLine(st.hunk, st.reader.line)
         IN  IF currentLineIsAffectedBy(st.reader, EditAt(edits, st.nextIndex))
             THEN AfterEdits(st, addAllEditsOnCurLine(h, st.reader, edits, st.nextIndex))
             ELSE IF KeepsHunkOpen(st.trailingCtxLines + 1)
                  THEN [st EXCEPT !.hunk = h,
                                  !.trailingCtxLines = st.trailingCtxLines + 1]
                  ELSE [st EXCEPT !.hunk = NilHunk,
                                  !.trailingCtxLines = st.trailingCtxLines + 1,
                                  !.hunks = Append(st.hunks, h),
                                  !.curState = "HUNK_NOT_STARTED"]

\* createPatch after its loop: the open hunk is flushed
AfterLoop(st, edits) ==
    IF st.curState \in {"ADDING_TO_HUNK", "EDIT_ADDED_TO_HUNK"}
    THEN LET h1 == IF st.reader.line # <<>> THEN addLine(st.hunk, st.reader.line)
                   ELSE st.hunk
             r == IF st.curState = "ADDING_TO_HUNK"
                  THEN addAllEditsOnCurLine(h1, st.reader, edits, st.nextIndex)
                  ELSE [hunk |-> h1, nextIndex |-> st.nextIndex, last |-> NilEdit]
         IN  [st EXCEPT !.hunk = r.hunk, !.nextIndex = r.nextIndex,
                        !.hunks = Append(st.hunks, r.hunk)]
    ELSE st

----------------------------------------------------------------------------
(* Patch.Write and writeUnifiedDiffHunk *)

\* the io.Writer under the bufio.Writer: it takes cap bytes and then fails
\* with a short write; a negative cap is a sink that never fails
SinkWrite(sk, p) ==
    LET room == sk.cap - Len(sk.data)
    IN  IF sk.cap < 0 \/ Len(p) <= room
        THEN [sink |-> [sk EXCEPT !.data = sk.data \o p], n |-> Len(p), err |-> "nil"]
        ELSE [sink |-> [sk EXCEPT !.data = sk.data \o SubSeq(p, 1, room), !.failed = TRUE],
              n |-> room, err |-> "EIO"]

\* bufio.Writer.Flush: writes the buffered bytes to the sink; the error sticks
Flush(w, sk) ==
    IF w.err # "nil" THEN [writer |-> w, sink |-> sk, err |-> w.err]
    ELSE IF w.buf = <<>> THEN [writer |-> w, sink |-> sk, err |-> "nil"]
    ELSE LET r == SinkWrite(sk, w.buf)
         IN  IF r.err # "nil"
             THEN [writer |-> [buf |-> SubSeq(w.buf, r.n + 1, Len(w.buf)), err |-> r.err],
                   sink |-> r.sink, err |-> r.err]
             ELSE [writer |-> [buf |-> <<>>, err |-> "nil"], sink |-> r.sink, err |-> "nil"]

RECURSIVE BufWrite(_, _, _)
\* bufio.Writer.Write(p), which each fmt.Fprintf calls once
BufWrite(w, sk, p) ==
    LET avail == BufSize - Len(w.buf)
    IN  IF Len(p) > avail /\ w.err = "nil"
        THEN IF w.buf = <<>>
             THEN LET r == SinkWrite(sk, p)
                  IN  BufWrite([w EXCEPT !.err = r.err], r.sink,
                               SubSeq(p, r.n + 1, Len(p)))
             ELSE LET f == Flush([w EXCEPT !.buf = w.buf \o SubSeq(p, 1, avail)], sk)
                  IN  BufWrite(f.writer, f.sink, SubSeq(p, avail + 1, Len(p)))
        ELSE IF w.err # "nil"
        THEN [writer |-> w, sink |-> sk, err |-> w.err]
        ELSE [writer |-> [w EXCEPT !.buf = w.buf \o p], sink |-> sk, err |-> "nil"]

RECURSIVE WriteAll(_, _, _)
\* a run of fmt.Fprintf calls whose results are not looked at
WriteAll(w, sk, ps) ==
    IF ps = <<>> THEN [writer |-> w, sink |-> sk]
    ELSE LET r == BufWrite(w, sk, Head(ps))
         IN  WriteAll(r.writer, r.sink, Tail(ps))

Digit(n) == <<"0", "1", "2", "3", "4", "5", "6", "7", "8", "9">>[n + 1]

RECURSIVE Digits(_)
Digits(n) == IF n < 10 THEN <<Digit(n)>> ELSE Append(Digits(n \div 10), Digit(n % 10))

\* the verb %d of fmt.Fprintf
Itoa(n) == IF n < 0 THEN <<"-">> \o Digits(-n) ELSE Digits(n)

RECURSIVE SplitAfterFrom(_, _)
SplitAfterFrom(s, cur) ==
    IF s = <<>> THEN <<cur>>
    ELSE IF Head(s) = NL THEN <<Append(cur, NL)>> \o SplitAfterFrom(Tail(s), <<>>)
    ELSE SplitAfterFrom(Tail(s), Append(cur, Head(s)))

\* strings.SplitAfter(s, "\n"): the pieces after each newline, the last one
\* being what follows the last newline, empty or not
SplitAfter(s) == SplitAfterFrom(s, <<>>)

\* editSet.ApplyTo(key, in, out) on the text of a hunk
ApplyTo(edits, s) ==
    IF \E i \in 1..Len(edits) : edits[i].Offset < 0 \/ OffsetPastEnd(edits[i]) > Len(s)
    THEN [err |-> "range", text |-> <<>>]
    ELSE [err |-> "nil", text |-> ApplyEdits(edits, s)]

\* "@@ -%d,%d +%d,%d @@\n"
HunkHeader(s0, l0, s1, l1) ==
    <<"@", "@", " ", "-">> \o Itoa(s0) \o <<",">> \o Itoa(l0) \o <<" ", "+">>
        \o Itoa(s1) \o <<",">> \o Itoa(l1) \o <<" ", "@", "@", NL>>

\* "--- %s\n+++ %s\n"
FileHeader(filename) ==
    <<"-", "-", "-", " ">> \o filename \o <<NL, "+", "+", "+", " ">> \o filename \o <<NL>>

RECURSIVE EditsHere(_, _, _, _, _)
\* the inner loop of writeUnifiedDiffHunk: the edits of the line script at
\* the offset of the line
EditsHere(line, ses, idx, offset, deleted) ==
    LET cur == EditAt(ses, idx)
    IN  IF cur # NilEdit /\ cur.Offset = offset
        THEN LET r == EditsHere(line, ses, idx + 1, offset, deleted \/ cur.Length > 0)
             IN  [r EXCEPT !.writes =
                     <<IF cur.Length > 0 THEN <<"-">> \o line
                       ELSE <<"+">> \o cur.replacement>> \o r.writes]
        ELSE [writes |-> <<>>, idx |-> idx, deleted |-> deleted]

RECURSIVE BodyFrom(_, _, _, _, _)
\* the loop of writeUnifiedDiffHunk over origLines: what each Fprintf writes
BodyFrom(origLines, ses, i, offset, idx) ==
    IF i > Len(origLines) THEN <<>>
    ELSE LET line == origLines[i]
             cur == EditAt(ses, idx)
         IN  IF cur = NilEdit \/ cur.Offset > offset
             THEN <<<<" ">> \o line>>
                     \o BodyFrom(origLines, ses, i + 1, offset + Len(line), idx)
             ELSE LET r == EditsHere(line, ses, idx, offset, FALSE)
                  IN  r.writes
                         \o (IF r.deleted THEN <<>> ELSE <<<<" ">> \o line>>)
                         \o BodyFrom(origLines, ses, i + 1, offset + Len(line), r.idx)

\* the line count writeUnifiedDiffHunk reports for a text: len() of its
\* SplitAfter
LineCount(ss) == Len(ss)

\* writeUnifiedDiffHunk(h, outputLineOffset, out)
writeUnifiedDiffHunk(h, outputLineOffset, w, sk) ==
    LET applied == ApplyTo(h.edits, h.hunk)
        origLines == SplitAfter(h.hunk)
        newLines == SplitAfter(applied.text)
        hdr == BufWrite(w, sk, HunkHeader(h.startLine, LineCount(origLines),
                                          h.startLine + outputLineOffset,
                                          LineCount(newLines)))
        diff == DiffRun(origLines, newLines)
        body == WriteAll(hdr.writer, hdr.sink, BodyFrom(origLines, diff.result, 1, 0, 0))
    IN  IF applied.err # "nil"
        THEN [adjust |-> 0, err |-> applied.err, writer |-> w, sink |-> sk, panic |-> FALSE]
        ELSE IF hdr.err # "nil"
        THEN [adjust |-> 0, err |-> hdr.err, writer |-> hdr.writer, sink |-> hdr.sink,
              panic |-> FALSE]
        ELSE IF diff.pc = "panic"
        THEN [adjust |-> 0, err |-> "nil", writer |-> hdr.writer, sink |-> hdr.sink,
              panic |-> TRUE]
        ELSE [adjust |-> Len(newLines) - Len(origLines), err |-> "nil",
              writer |-> body.writer, sink |-> body.sink, panic |-> FALSE]

\* Patch.Add(string, OffsetLength, string): the patch it leaves and the error
\* it returns; here an Add that appends the edit to the last hunk
PatchAddMutating(p, ed) ==
    [patch |-> IF p.hunks = <<>> THEN p
               ELSE [p EXCEPT !.hunks[Len(p.hunks)] = addEdit(p.hunks[Len(p.hunks)], ed)],
     err |-> "nil"]

\* Patch.Add(string, OffsetLength, string): the patch it leaves and the error
\* it returns
PatchAdd(p, ed) ==
    [patch |-> p, err |-> "Add cannot be called on Patch (read-only)"]

RECURSIVE HunkEdits(_)
\* Patch.Edits: the edits of the hunks, in order
HunkEdits(hs) == IF hs = <<>> THEN <<>> ELSE Head(hs).edits \o HunkEdits(Tail(hs))

----------------------------------------------------------------------------
(* Inputs *)

TheFile == <<"f">>

LineA == <<"a", NL>>
LineB == <<"b", NL>>

\* a text of n lines "a\n", followed by an "a" with no newline if partial
UniformText(n, partial) ==
    Join([i \in 1..n |-> LineA]) \o (IF partial THEN <<"a">> ELSE <<>>)

HunkTexts == {UniformText(n, p) : n \in 0..MaxLines, p \in BOOLEAN}

\* the offsets at which a line of t starts
LineStarts(t) == {o \in 0..(Len(t) - 1) : o = 0 \/ t[o] = NL}

\* the edits an EditSet for t is drawn from: an insertion of a line at a line
\* start or at the end of the text, a change inside a line, the deletion of
\* a whole line, a change that runs into the next line
CandidateEdits(t) ==
    {Edit(o, 0, <<"x", NL>>) : o \in LineStarts(t) \cup {Len(t)}}
    \cup {Edit(o, 1, <<"z">>) : o \in LineStarts(t)}
    \cup {Edit(o, 2, <<>>) : o \in {p \in LineStarts(t) : p + 2 <= Len(t)}}
    \cup {Edit(o, 3, <<"y">>) : o \in {p \in LineStarts(t) : p + 3 <= Len(t)}}

RECURSIVE EditSetsUpTo(_, _)
\* the well-formed EditSets of at most n edits: ascending, not overlapping,
\* inside the text
EditSetsUpTo(t, n) ==
    IF n = 0 THEN {<<>>}
    ELSE LET shorter == EditSetsUpTo(t, n - 1)
         IN  shorter \cup
             UNION {{Append(es, c) : c \in {x \in CandidateEdits(t) :
                                                \A i \in 1..(n - 1) :
                                                   /\ OffsetPastEnd(es[i]) <= x.Offset
                                                   /\ es[i] # x}} :
                    es \in {x \in shorter : Len(x) = n - 1}}

\* the scenario of the specification
Foo == <<"f", "o", "o", NL>>
Bar == <<"b", "a", "r", NL>>
Baz == <<"b", "a", "z", NL>>
Qux == <<"q", "u", "x", NL>>
ScenarioA == <<Foo, Bar, Baz>>
ScenarioB == <<Foo, Qux, Baz>>

\* ss with the line x put in front of its (0-based) line i
InsertLine(ss, i, x) == SubSeq(ss, 1, i) \o <<x>> \o SubSeq(ss, i + 1, Len(ss))

LongA == [i \in 1..LongLines |-> LineA]

\* the short line sequences: lines that end with a newline, and the same
\* with a last line that does not
ShortTexts ==
    SeqsUpTo({LineA, LineB}, ShortLines)
    \cup {Append(s, t) : s \in SeqsUpTo({LineA, LineB}, ShortLines - 1),
                         t \in {<<"a">>, <<"b">>}}

\* the pairs of line sequences the patches are made from: all short pairs,
\* the scenario, and a long text with two lines inserted
PatchPairs ==
    (ShortTexts \X ShortTexts)
    \cup {<<ScenarioA, ScenarioB>>}
    \cup {<<LongA, InsertLine(InsertLine(LongA, j, LineB), i, LineB)>> :
              i \in {0, 1}, j \in (LongLines - 2)..LongLines}

RECURSIVE EditSetsOver(_, _)
\* the EditSets of at most n edits drawn from cs: ascending, not overlapping
EditSetsOver(cs, n) ==
    IF n = 0 THEN {<<>>}
    ELSE LET shorter == EditSetsOver(cs, n - 1)
         IN  shorter \cup
             UNION {{Append(es, c) : c \in {x \in cs :
                                                \A i \in 1..(n - 1) :
                                                   /\ OffsetPastEnd(es[i]) <= x.Offset
                                                   /\ es[i] # x}} :
                    es \in {x \in shorter : Len(x) = n - 1}}

\* the edits of an EditSet that a caller fills with EditSet.Add: those of
\* CandidateEdits, the insertion of two lines and the insertion of a word
DirectEdits(t) ==
    CandidateEdits(t)
    \cup {Edit(o, 0, <<"x", NL, "x", NL>>) : o \in LineStarts(t)}
    \cup {Edit(o, 0, <<"x">>) : o \in LineStarts(t)}

\* the texts and EditSets createPatch is called on without Diff
DirectCases ==
    UNION {{<<t, es>> : es \in EditSetsOver(DirectEdits(t), MaxEdits)} :
           t \in {UniformText(n, p) : n \in 1..DirectLines, p \in BOOLEAN}}

\* the edits Patch.Add is called with
AddArgs == {Edit(0, 0, <<"x", NL>>), Edit(0, 1, <<>>)}

SinkCaps == {-1} \cup {c \in 0..MaxSink : c % SinkStep = 0}

----------------------------------------------------------------------------
(* The state machines *)

vars == <<pc, op, diffVars, cpVars, patchVars, writeVars>>

NoDiff ==
    /\ a = <<>> /\ b = <<>> /\ v = <<>> /\ vs = <<>> /\ d = 0 /\ k = 0
    /\ result = NewEditSet

NoPatch ==
    /\ reader = newLineRdr /\ nextIndex = 0 /\ curState = "HUNK_NOT_STARTED"
    /\ hunk = NilHunk /\ trailingCtxLines = 0
    /\ patch = [filename |-> TheFile, hunks |-> <<>>]
    /\ retErr = "nil"
    /\ sink = [cap |-> -1, data |-> <<>>, failed |-> FALSE]
    /\ writer = [buf |-> <<>>, err |-> "nil"]
    /\ lineOffset = 0 /\ hunkIdx = 0

DiffState ==
    [a |-> a, b |-> b, v |-> v, vs |-> vs, d |-> d, k |-> k,
     result |-> result, pc |-> pc]

SetDiffState(s) ==
    /\ a' = s.a /\ b' = s.b /\ v' = s.v /\ vs' = s.vs
    /\ d' = s.d /\ k' = s.k /\ result' = s.result /\ pc' = s.pc
    /\ op' = "Diff"
    /\ UNCHANGED <<cpVars, patchVars, writeVars>>

\* before Diff(filename, a, b) is called
InitDiff ==
    /\ pc = "start" /\ op = "none"
    /\ \E pr \in DiffPairs : a = pr[1] /\ b = pr[2]
    /\ v = <<>> /\ vs = <<>> /\ d = 0 /\ k = 0
    /\ result = NewEditSet
    /\ text = <<>> /\ editSet = <<>>
    /\ NoPatch

DiffCall ==
    /\ pc = "start"
    /\ SetDiffState(DiffBegin(a, b))

DiffSearch ==
    /\ pc = "search"
    /\ SetDiffState(SearchStep(DiffState))

ConstructStep ==
    /\ pc = "backtrace"
    /\ Len(vs) > 1
    /\ SetDiffState(BacktraceStep(DiffState))

ConstructReturn ==
    /\ pc = "backtrace"
    /\ Len(vs) <= 1
    /\ pc' = "done"
    /\ UNCHANGED <<op, diffVars, cpVars, patchVars, writeVars>>

NextDiff == DiffCall \/ DiffSearch \/ ConstructStep \/ ConstructReturn

SpecDiff == InitDiff /\ [][NextDiff]_vars

\* createPatch(e, key, in) is about to be called on a text and an EditSet
InitHunk ==
    /\ pc = "edits" /\ op = "none"
    /\ NoDiff
    /\ text \in HunkTexts
    /\ editSet \in EditSetsUpTo(text, MaxEdits)
    /\ NoPatch

CpState ==
    [reader |-> reader, nextIndex |-> nextIndex, curState |-> curState,
     hunk |-> hunk, trailingCtxLines |-> trailingCtxLines, hunks |-> patch.hunks]

SetCpState(st) ==
    /\ reader' = st.reader /\ nextIndex' = st.nextIndex /\ curState' = st.curState
    /\ hunk' = st.hunk /\ trailingCtxLines' = st.trailingCtxLines
    /\ patch' = [patch EXCEPT !.hunks = st.hunks]
    /\ op' = "createPatch"
    /\ UNCHANGED <<diffVars, text, editSet, writeVars>>

\* createPatch up to its loop
CreatePatchCall ==
    /\ pc = "edits"
    /\ pc' = IF Len(editSet) = 0 THEN "patch" ELSE "reading"
    /\ retErr' = "nil"
    /\ SetCpState([reader |-> newLineRdr, nextIndex |-> 0,
                   curState |-> "HUNK_NOT_STARTED", hunk |-> NilHunk,
                   trailingCtxLines |-> 0, hunks |-> <<>>])

\* readLine returns a line, and the body of the loop runs
CreatePatchLine ==
    /\ pc = "reading"
    /\ LET rd == ReadString(text, offsetPastEnd(reader))
       IN  /\ rd.err = "nil"
           /\ SetCpState(LoopBody([CpState EXCEPT !.reader = readLine(reader, rd)], editSet))
    /\ UNCHANGED <<pc, retErr>>

\* readLine returns io.EOF: the loop ends and createPatch returns
CreatePatchEOF ==
    /\ pc = "reading"
    /\ LET rd == ReadString(text, offsetPastEnd(reader))
       IN  /\ rd.err = "EOF"
           /\ SetCpState(AfterLoop([CpState EXCEPT !.reader = readLine(reader, rd)], editSet))
    /\ retErr' = "nil"
    /\ pc' = "patch"

\* the read of the stream fails: readLine returns the error with the bytes
\* read so far, the loop ends and createPatch returns the error
CreatePatchReadError ==
    /\ pc = "reading"
    /\ \E n \in 0..1 :
         LET pos == offsetPastEnd(reader)
             got == IF n = 1 /\ pos < Len(text) /\ text[pos + 1] # NL
                    THEN <<text[pos + 1]>> ELSE <<>>
             rd == [data |-> got, err |-> "EIO"]
         IN  SetCpState(AfterLoop([CpState EXCEPT !.reader = readLine(reader, rd)], editSet))
    /\ retErr' = "EIO"
    /\ pc' = "failed"

NextHunk ==
    CreatePatchCall \/ CreatePatchLine \/ CreatePatchEOF \/ CreatePatchReadError

SpecHunk == InitHunk /\ [][NextHunk]_vars

\* createPatch is about to be called: on the EditSet that Diff(key, a, b) has
\* returned and the text join(a), or on an EditSet filled by its caller
InitPatch ==
    /\ pc = "edits"
    /\ v = <<>> /\ vs = <<>> /\ d = 0 /\ k = 0
    /\ \/ /\ op = "Diff"
          /\ \E pr \in PatchPairs : a = pr[1] /\ b = pr[2]
          /\ result = DiffRun(a, b).result
          /\ text = Join(a)
          /\ editSet = result
       \/ /\ op = "none"
          /\ a = <<>> /\ b = <<>> /\ result = NewEditSet
          /\ \E c \in DirectCases : text = c[1] /\ editSet = c[2]
    /\ NoPatch

\* Patch.Write up to its loop: the sink is the caller's
PatchWriteCall ==
    /\ pc = "patch"
    /\ \E cap \in SinkCaps :
         LET r == BufWrite([buf |-> <<>>, err |-> "nil"],
                           [cap |-> cap, data |-> <<>>, failed |-> FALSE],
                           FileHeader(patch.filename))
         IN  writer' = r.writer /\ sink' = r.sink
    /\ lineOffset' = 0 /\ hunkIdx' = 0
    /\ pc' = "writing" /\ op' = "Write"
    /\ UNCHANGED <<diffVars, cpVars, patchVars>>

\* one iteration of the loop of Patch.Write; on an error the deferred Flush
\* runs and Write returns the error
PatchWriteHunk ==
    /\ pc = "writing"
    /\ hunkIdx < Len(patch.hunks)
    /\ LET r == writeUnifiedDiffHunk(patch.hunks[hunkIdx + 1], lineOffset, writer, sink)
           f == Flush(r.writer, r.sink)
       IN  IF r.panic
           THEN /\ pc' = "panic"
                /\ UNCHANGED <<writer, sink, lineOffset, hunkIdx, retErr>>
           ELSE IF r.err # "nil"
           THEN /\ writer' = f.writer /\ sink' = f.sink
                /\ retErr' = r.err
                /\ pc' = "patch"
                /\ UNCHANGED <<lineOffset, hunkIdx>>
           ELSE /\ writer' = r.writer /\ sink' = r.sink
                /\ lineOffset' = lineOffset + r.adjust
                /\ hunkIdx' = hunkIdx + 1
                /\ UNCHANGED <<pc, retErr>>
    /\ op' = "Write"
    /\ UNCHANGED <<diffVars, cpVars, patch>>

\* the loop of Patch.Write is over: the deferred Flush runs, Write returns nil
PatchWriteReturn ==
    /\ pc = "writing"
    /\ hunkIdx = Len(patch.hunks)
    /\ LET f == Flush(writer, sink)
       IN  writer' = f.writer /\ sink' = f.sink
    /\ retErr' = "nil"
    /\ pc' = "patch" /\ op' = "Write"
    /\ UNCHANGED <<diffVars, cpVars, patch, lineOffset, hunkIdx>>

\* Patch.Add
PatchAddCall ==
    /\ pc = "patch"
    /\ \E ed \in AddArgs :
         LET r == PatchAdd(patch, ed)
         IN  patch' = r.patch /\ retErr' = r.err
    /\ op' = "Add"
    /\ UNCHANGED <<pc, diffVars, cpVars, writeVars>>

\* Patch.ApplyTo, Patch.ApplyToFile, Patch.ApplyToString: panic("Not implemented")
PatchApply ==
    /\ pc = "patch"
    /\ op' \in {"ApplyTo", "ApplyToFile", "ApplyToString"}
    /\ pc' = "panic"
    /\ UNCHANGED <<diffVars, cpVars, patchVars, writeVars>>

\* Patch.Edits and Patch.CreatePatch: they read the patch and return
PatchRead ==
    /\ pc = "patch"
    /\ op' \in {"Edits", "CreatePatch"}
    /\ retErr' = "nil"
    /\ UNCHANGED <<pc, diffVars, cpVars, patch, writeVars>>

NextPatch ==
    \/ NextHunk
    \/ PatchWriteCall \/ PatchWriteHunk \/ PatchWriteReturn
    \/ PatchAddCall \/ PatchApply \/ PatchRead

SpecPatch == InitPatch /\ [][NextPatch]_vars

----------------------------------------------------------------------------
(* Properties of Diff *)

RECURSIVE LCS(_, _)
\* reference: the length of a longest common subsequence, by the textbook
\* recurrence on the last elements
LCS(s, t) ==
    IF s = <<>> \/ t = <<>> THEN 0
    ELSE LET s1 == SubSeq(s, 1, Len(s) - 1)
             t1 == SubSeq(t, 1, Len(t) - 1)
         IN  IF s[Len(s)] = t[Len(t)] THEN 1 + LCS(s1, t1)
             ELSE LET l == LCS(s1, t)
                      r == LCS(s, t1)
                  IN  IF l >= r THEN l ELSE r

\* the unit boundaries of Join(ss): the offsets at which a unit of ss starts,
\* and the end of the text
UnitBoundaries(ss) == {offsetOfString(i, ss) : i \in 0..Len(ss)}

\* C1: applying the EditSet returned by Diff(a, b) to join(a) yields join(b),
\* for all a and b
C1_RoundTrip ==
    pc = "done" => ApplyEdits(result, Join(a)) = Join(b)

C3_EditShape ==
    pc = "done" =>
        \A i \in 1..Len(result) :
            LET e == result[i] IN
            /\ e.Offset \in UnitBoundaries(a)
            /\ \/ /\ e.replacement = <<>>
                  /\ \E j \in 1..Len(a) :
                         offsetOfString(j - 1, a) = e.Offset /\ e.Length = Len(a[j])
               \/ /\ e.Length = 0
                  /\ \E j \in 1..Len(b) : e.replacement = b[j]

\* C12: for non-empty a and b Diff returns normally: it never panics, neither
\* on an index out of range in the search or the backtrace nor with "Length
\* of SES longer than max"; during the backtrace the diagonal k is one that
\* the round of the snapshot at hand has reached, and the backtrace ends at
\* k = 0
C12_DiffReturns ==
    (a # <<>> /\ b # <<>>) =>
        /\ pc # "panic"
        /\ pc = "backtrace" => abs(k) <= Len(vs) - 1
        /\ pc = "done" => k = 0

----------------------------------------------------------------------------
(* Properties of createPatch *)

\* the lines of a text: its pieces after each newline, and what follows the
\* last newline when that is not empty
LinesOf(t) ==
    LET ss == SplitAfter(t)
    IN  IF ss[Len(ss)] = <<>> THEN SubSeq(ss, 1, Len(ss) - 1) ELSE ss

\* the number of lines of t that lie wholly between the end of e1 and the
\* start of e2: the lines that separate the two edits
SeparatingLines(t, e1, e2) ==
    LET ls == LinesOf(t)
    IN  Cardinality({j \in 1..Len(ls) :
                        /\ offsetOfString(j - 1, ls) >= OffsetPastEnd(e1)
                        /\ offsetOfString(j, ls) <= e2.Offset})

\* the (1-based) hunk of hs that holds the i-th attached edit, 0 if none
RECURSIVE HunkOfFrom(_, _, _)
HunkOfFrom(hs, i, n) ==
    IF n > Len(hs) THEN 0
    ELSE IF i <= Len(hs[n].edits) THEN n
    ELSE HunkOfFrom(hs, i - Len(hs[n].edits), n + 1)

HunkOf(hs, i) == HunkOfFrom(hs, i, 1)

\* C4: two consecutive edits separated by at most 2C-1 = 5 lines that no edit
\* touches end up in the same hunk, and in different hunks when separated by
\* 2C = 6 or more such lines, whatever the kind of the edits
C4_MergeThreshold ==
    pc = "patch" =>
        \A i \in 1..(Len(editSet) - 1) :
            (HunkOf(patch.hunks, i) # 0 /\ HunkOf(patch.hunks, i + 1) # 0) =>
                LET g == SeparatingLines(text, editSet[i], editSet[i + 1])
                IN  /\ g <= 2 * num_ctx_lines - 1 =>
                           HunkOf(patch.hunks, i) = HunkOf(patch.hunks, i + 1)
                    /\ g >= 2 * num_ctx_lines =>
                           HunkOf(patch.hunks, i) # HunkOf(patch.hunks, i + 1)

RECURSIVE AbsoluteEdits(_)
\* the edits of the hunks, in order, at their offsets in the file
AbsoluteEdits(hs) ==
    IF hs = <<>> THEN <<>>
    ELSE [i \in 1..Len(Head(hs).edits) |->
             RelativeToOffset(Head(hs).edits[i], -Head(hs).startOffset)]
         \o AbsoluteEdits(Tail(hs))

\* C10: once createPatch has consumed the stream without I/O error, every
\* edit of the EditSet is attached to exactly one hunk, in the original order
C10_NoEditLost ==
    pc = "patch" => AbsoluteEdits(patch.hunks) = editSet

\* the lines first..last (1-based) of t, joined
LineRange(t, first, last) ==
    LET ls == LinesOf(t)
    IN  IF first < 1 \/ last > Len(ls) THEN <<"?">>
        ELSE Join(SubSeq(ls, first, last))

\* C11: in every Patch produced by createPatch each hunk's first line comes
\* after the last line of the previous hunk (no original line belongs to two
\* hunks), and each hunk's buffered text is exactly the original lines
\* startLine .. startLine+numLines-1, beginning at byte startOffset
C11_HunksDisjoint ==
    pc = "patch" =>
        /\ \A i \in 1..(Len(patch.hunks) - 1) :
               patch.hunks[i + 1].startLine
                   > patch.hunks[i].startLine + patch.hunks[i].numLines - 1
        /\ \A i \in 1..Len(patch.hunks) :
               LET h == patch.hunks[i]
               IN  /\ h.startLine >= 1
                   /\ h.startOffset = offsetOfString(h.startLine - 1, LinesOf(text))
                   /\ h.hunk = LineRange(text, h.startLine, h.startLine + h.numLines - 1)


----------------------------------------------------------------------------
(* Properties of the Patch *)

RECURSIVE Contains(_, _)
\* s holds p as a run of consecutive bytes
Contains(s, p) ==
    IF Len(s) < Len(p) THEN FALSE
    ELSE SubSeq(s, 1, Len(p)) = p \/ Contains(Tail(s), p)

\* the line shift of the hunks before the i-th: the sum of their L1 - L0
RECURSIVE ShiftBefore(_, _)
ShiftBefore(hs, i) ==
    IF i <= 1 THEN 0
    ELSE ShiftBefore(hs, i - 1)
         + Len(LinesOf(ApplyEdits(hs[i - 1].edits, hs[i - 1].hunk)))
         - Len(LinesOf(hs[i - 1].hunk))

\* the header the i-th hunk should get: @@ -startLine,L0 +startLine+D,L1 @@
ExpectedHeader(hs, i) ==
    HunkHeader(hs[i].startLine, Len(LinesOf(hs[i].hunk)),
               hs[i].startLine + ShiftBefore(hs, i),
               Len(LinesOf(ApplyEdits(hs[i].edits, hs[i].hunk))))

\* Patch.Write has returned nil after writing to a sink that never fails
Written == pc = "patch" /\ op = "Write" /\ retErr = "nil" /\ sink.cap < 0

\* C5: the header of every hunk written by Patch.Write is exactly
\* @@ -startLine,L0 +startLine+D,L1 @@ with L0 and L1 the line counts of the
\* hunk's original and new text and D the sum of L1 - L0 over earlier hunks
C5_HeaderAccuracy ==
    Written =>
        \A i \in 1..Len(patch.hunks) : Contains(sink.data, ExpectedHeader(patch.hunks, i))

ScenarioOutput ==
    FileHeader(TheFile) \o HunkHeader(1, 3, 1, 3)
        \o <<" ">> \o Foo \o <<"-">> \o Bar \o <<"+">> \o Qux \o <<" ">> \o Baz

\* C6: for a = [foo, bar, baz] and b = [foo, qux, baz] Diff yields exactly the
\* deletion of bar and the insertion of qux, and the patch written for file f
\* is exactly --- f, +++ f, @@ -1,3 +1,3 @@, " foo", -bar, +qux, " baz"
C6_Scenario ==
    (a = ScenarioA /\ b = ScenarioB) =>
        /\ Len(result) = 2
        /\ \E i \in 1..2 : result[i] = Edit(4, 4, <<>>)
        /\ \E i \in 1..2 : result[i].Length = 0 /\ result[i].replacement = Qux
        /\ Written => sink.data = ScenarioOutput

\* the pieces of a hunk body that carry one of the marks, without the mark
Side(body, marks) ==
    LET kept == SelectSeq(body, LAMBDA p : Head(p) \in marks)
    IN  [i \in 1..Len(kept) |-> Tail(kept[i])]

\* the pieces that are not empty
NonEmpty(ss) == SelectSeq(ss, LAMBDA p : p # <<>>)

\* the line script writeUnifiedDiffHunk computes for a hunk
HunkScript(h) ==
    DiffRun(SplitAfter(h.hunk), SplitAfter(ApplyTo(h.edits, h.hunk).text)).result

\* the body lines writeUnifiedDiffHunk writes for a hunk
HunkBody(h) == BodyFrom(SplitAfter(h.hunk), HunkScript(h), 1, 0, 0)

\* C13: for every hunk written by writeUnifiedDiffHunk, the body lines marked
\* " " or "-" are, in order, exactly the lines of the hunk's original text,
\* the body lines marked " " or "+" are exactly the lines of the original
\* with the hunk's edits applied, and every edit of the line script is
\* written exactly once
C13_BodyReconstructs ==
    Written =>
        \A i \in 1..Len(patch.hunks) :
            LET h == patch.hunks[i]
                body == HunkBody(h)
            IN  /\ NonEmpty(Side(body, {" ", "-"})) = LinesOf(h.hunk)
                /\ NonEmpty(Side(body, {" ", "+"})) = LinesOf(ApplyEdits(h.edits, h.hunk))
                /\ Len(Side(body, {"+", "-"})) = Len(HunkScript(h))

\* C7: Patch.Add returns an error for every argument and leaves the patch
\* (its file name, its hunks, their edits) unchanged, in every state of a Patch
C7_AddReadOnly ==
    [][(pc = "patch" /\ op' = "Add") => (patch' = patch /\ retErr' # "nil")]_vars

\* Add has been called on a patch with a hunk that Write has already written
C7_Witness ==
    /\ pc = "patch" /\ op = "Add"
    /\ Len(patch.hunks) >= 1
    /\ sink.data # <<>>
    /\ retErr # "nil"

\* C8: ApplyTo, ApplyToFile and ApplyToString return to the caller with an
\* error; none of them ends in a panic
C8_NoPanic ==
    op \in {"ApplyTo", "ApplyToFile", "ApplyToString"} => pc # "panic"

\* C9: a failed read makes createPatch return that error, and a failed write
\* to the sink, at any point of Patch.Write, makes Write return an error
C9_IOSurfaced ==
    /\ pc = "failed" => retErr = "EIO"
    /\ (pc = "patch" /\ op = "Write" /\ sink.failed) => retErr # "nil"

====
